---- MODULE Spec2Model ----
(***************************************************************************)
(* Model of the notebook 2-Climate-Data-Overview.ipynb: a netCDF dataset   *)
(* is opened, its variables are read into NumPy masked arrays, indexed,    *)
(* sliced and averaged, and projected into labelled pandas data frames.    *)
(*                                                                         *)
(* The library calls the cells make are modelled by what they do:          *)
(*   GetItem    a[k1,...,kn]  (basic indexing with integers and slices)    *)
(*   Mean       a.mean(axis)  (masked mean)                                *)
(*   Num2Date   netCDF4.num2date(values, units)                            *)
(*   DataFrame, SetIndex, SetColumns, BoolSelect   (pandas)                *)
(* Axis positions are 1-based in the model (NumPy axis k is k+1 here);     *)
(* index values keep Python's 0-based convention.                          *)
(***************************************************************************)
EXTENDS Integers, Sequences, FiniteSets, TLC

VARIABLES
    pc,            \* position of the notebook run (name of the next cell)
    dataset,       \* the contents of the netCDF file behind `dataset`
    isopen,        \* whether the netCDF file handle held by `dataset` is open
    opens,         \* number of times a handle was acquired
    closes,        \* number of times a handle was released
    ncPrecip,      \* the data of the file's precipitation variable
    arrPrecip,     \* the NumPy masked array ncPrecip[:], NoValue before it is read
    ncTime,        \* the time variable: raw offsets and the units attribute
    arrTimeSeries, \* the 1-d array arrPrecip[:,250,300]
    arrMeanPrecip, \* the 2-d array arrPrecip.mean(axis=0)
    dfTimeSeries,  \* the data frame made of arrTimeSeries
    dfMeanPrecip,  \* the data frame made of arrMeanPrecip
    tmp,           \* value of the last intermediate sub-expression of a cell
    op,            \* the last operation applied and its arguments
    out,           \* the value the last operation produced
    raised         \* the exception the last operation raised, or "none"

vars == <<pc, dataset, isopen, opens, closes, ncPrecip, arrPrecip, ncTime, arrTimeSeries,
          arrMeanPrecip, dfTimeSeries, dfMeanPrecip, tmp, op, out, raised>>

file == <<dataset, isopen, opens, closes>>
tables == <<arrTimeSeries, arrMeanPrecip, dfTimeSeries, dfMeanPrecip>>

(***************************************************************************)
(* Bounds of the model.                                                    *)
(***************************************************************************)
MaxLen == 2        \* longest axis of a modelled array
MaxCells == 4      \* most cells of a modelled array
Values == {1, 2}   \* the data values of the unmasked cells
FillValue == -9999 \* precip._FillValue, the data under a masked cell

DimNames == <<"time", "lat", "lon">>

Max(a, b) == IF a >= b THEN a ELSE b
Min(a, b) == IF a <= b THEN a ELSE b

RECURSIVE GCD(_, _)
GCD(a, b) == IF b = 0 THEN a ELSE GCD(b, a % b)

(***************************************************************************)
(* Masked arrays.  An array is its shape and a cell per index tuple; a     *)
(* cell is the data value and the parallel mask flag (section 4.2).  A     *)
(* rank-0 array (shape <<>>) is a scalar.                                  *)
(***************************************************************************)
IndexSet(shape) ==
    {t \in [1..Len(shape) -> 0..MaxLen + 1] : \A d \in 1..Len(shape) : t[d] < shape[d]}

Present(v) == [mask |-> FALSE, data |-> v]
Masked == [mask |-> TRUE, data |-> FillValue]

CellSet == {Present(v) : v \in Values} \cup {Masked}

Shapes == {s \in [1..3 -> 1..MaxLen] : s[1] * s[2] * s[3] <= MaxCells}

Arrays == UNION {{[shape |-> s, cells |-> c] : c \in [IndexSet(s) -> CellSet]} : s \in Shapes}

NoValue == [shape |-> <<>>, cells |-> <<>>]

Rank(a) == Len(a.shape)

(***************************************************************************)
(* Index keys: an integer, or a slice start:stop whose bounds may be       *)
(* absent (":").                                                           *)
(***************************************************************************)
Int_(i) == [kind |-> "int", hasStart |-> TRUE, start |-> i, hasStop |-> TRUE, stop |-> i]
Slice(a, b) == [kind |-> "slice", hasStart |-> TRUE, start |-> a, hasStop |-> TRUE, stop |-> b]
All == [kind |-> "slice", hasStart |-> FALSE, start |-> 0, hasStop |-> FALSE, stop |-> 0]

\* slice.indices(n) for step 1: a negative bound counts from the end, then
\* the bound is clamped to [0, n]
\* mutant: an explicit stop stops one short of the end
SliceBound_Short(has, b, n, dflt) ==
    IF ~has THEN dflt
    ELSE IF b < 0 THEN Max(b + n, 0)
    ELSE Min(b, n - 1)

\* mutant: a negative bound is clamped to 0 instead of counting from the end
SliceBound_Clamp(has, b, n, dflt) ==
    IF ~has THEN dflt
    ELSE Max(0, Min(b, n))

SliceBound(has, b, n, dflt) ==
    IF ~has THEN dflt
    ELSE IF b < 0 THEN Max(b + n, 0)
    ELSE Min(b, n)

SliceStart(k, n) == SliceBound(k.hasStart, k.start, n, 0)
SliceStop(k, n) == SliceBound(k.hasStop, k.stop, n, n)
SliceLen(k, n) == Max(SliceStop(k, n) - SliceStart(k, n), 0)

\* an integer index is valid in [-n, n); a negative one counts from the end
IntInRange(i, n) == -n <= i /\ i < n
IntNorm(i, n) == IF i < 0 THEN i + n ELSE i

\* mutant: a short key is completed with ":" on the leading axes
FullKey_Leading(key, rank) ==
    [d \in 1..rank |-> IF d > rank - Len(key) THEN key[d - (rank - Len(key))] ELSE All]

\* a key shorter than the rank is completed with ":" on the trailing axes
FullKey(key, rank) == [d \in 1..rank |-> IF d <= Len(key) THEN key[d] ELSE All]

RECURSIVE KeptOf(_, _)
KeptOf(full, d) ==
    IF d > Len(full) THEN <<>>
    ELSE IF full[d].kind = "slice" THEN <<d>> \o KeptOf(full, d + 1)
    ELSE KeptOf(full, d + 1)

\* position of axis d among the kept axes
PosIn(kept, d) == CHOOSE p \in 1..Len(kept) : kept[p] = d

BadKey(a, full) ==
    \E d \in 1..Rank(a) : full[d].kind = "int" /\ ~IntInRange(full[d].start, a.shape[d])

\* the cells a complete, valid key selects: an integer removes its axis, a
\* slice keeps it
Take(a, full) ==
    LET kept == KeptOf(full, 1)
        shape == [p \in 1..Len(kept) |-> SliceLen(full[kept[p]], a.shape[kept[p]])]
        src(t) == [d \in 1..Rank(a) |->
                     IF full[d].kind = "int" THEN IntNorm(full[d].start, a.shape[d])
                     ELSE SliceStart(full[d], a.shape[d]) + t[PosIn(kept, d)]]
    IN  [shape |-> shape, cells |-> [t \in IndexSet(shape) |-> a.cells[src(t)]]]

\* mutant: an integer index is taken modulo the axis length, never rejected
GetItem_Modulo(a, key) ==
    IF Len(key) > Rank(a) THEN [raised |-> "IndexError", value |-> NoValue]
    ELSE LET full == FullKey(key, Rank(a))
         IN  [raised |-> "none",
              value |-> Take(a, [d \in 1..Rank(a) |->
                                   IF full[d].kind = "int"
                                   THEN Int_(full[d].start % a.shape[d])
                                   ELSE full[d]])]

GetItem(a, key) ==
    IF Len(key) > Rank(a) THEN [raised |-> "IndexError", value |-> NoValue]
    ELSE IF BadKey(a, FullKey(key, Rank(a))) THEN [raised |-> "IndexError", value |-> NoValue]
    ELSE [raised |-> "none", value |-> Take(a, FullKey(key, Rank(a)))]

(***************************************************************************)
(* MaskedArray.mean(axis): dsum = self.filled(0).sum(axis), cnt =          *)
(* self.count(axis), result = dsum * 1. / cnt, masked where cnt = 0.  The  *)
(* quotient is kept exact, as the reduced fraction <<numerator,            *)
(* denominator>>.                                                          *)
(***************************************************************************)
Frac(n, d) == LET g == GCD(IF n < 0 THEN -n ELSE n, d) IN <<n \div g, d \div g>>

Filled(c, v) == IF c.mask THEN v ELSE c.data

\* mutant: the kept axes come out in reverse order
RECURSIVE KeepAxes_Reversed(_, _, _)
KeepAxes_Reversed(rank, axes, d) ==
    IF d > rank THEN <<>>
    ELSE IF d \in axes THEN KeepAxes_Reversed(rank, axes, d + 1)
    ELSE KeepAxes_Reversed(rank, axes, d + 1) \o <<d>>

RECURSIVE KeepAxes(_, _, _)
KeepAxes(rank, axes, d) ==
    IF d > rank THEN <<>>
    ELSE IF d \in axes THEN KeepAxes(rank, axes, d + 1)
    ELSE <<d>> \o KeepAxes(rank, axes, d + 1)

RECURSIVE SumFilled(_, _)
SumFilled(a, S) ==
    IF S = {} THEN 0
    ELSE LET i == CHOOSE i \in S : TRUE
         IN  Filled(a.cells[i], 0) + SumFilled(a, S \ {i})

\* mutant: the masked cells are counted too
Count_All(a, S) == Cardinality(S)

Count(a, S) == Cardinality({i \in S : ~a.cells[i].mask})

Divide(dsum, cnt) ==
    IF cnt = 0 THEN [mask |-> TRUE, data |-> Frac(0, 1)]
    ELSE [mask |-> FALSE, data |-> Frac(dsum, cnt)]

\* mutant: every sum is divided by the number of unmasked cells of the whole
\* array
Mean_GlobalCount(a, axes) ==
    LET kept == KeepAxes(Rank(a), axes, 1)
        shape == [p \in 1..Len(kept) |-> a.shape[kept[p]]]
        along(t) == {i \in IndexSet(a.shape) : \A p \in 1..Len(kept) : i[kept[p]] = t[p]}
    IN  [shape |-> shape,
         cells |-> [t \in IndexSet(shape) |->
                      Divide(SumFilled(a, along(t)), Count(a, IndexSet(a.shape)))]]

Mean(a, axes) ==
    LET kept == KeepAxes(Rank(a), axes, 1)
        shape == [p \in 1..Len(kept) |-> a.shape[kept[p]]]
        along(t) == {i \in IndexSet(a.shape) : \A p \in 1..Len(kept) : i[kept[p]] = t[p]}
    IN  [shape |-> shape,
         cells |-> [t \in IndexSet(shape) |->
                      Divide(SumFilled(a, along(t)), Count(a, along(t)))]]

(***************************************************************************)
(* The array cells of sections 3.2 and 4: the literal positions of the     *)
(* notebook (0, 250, 300, -1, 250:300, 300:400) are inputs of the model.   *)
(* Each run reads the array and applies one operation to it.               *)
(***************************************************************************)
\* positions offered on an axis of length n: every valid one and one beyond
\* each end
IndexArgs(n) == -(n + 1)..(n + 1)
SliceArgs(n) == -(n + 1)..(n + 1)

Length(a, d) == a.shape[d]

NoOp == [name |-> "none", key |-> <<>>, axes |-> {}]

Result(name, key, axes, t, value, exc) ==
    /\ op' = [name |-> name, key |-> key, axes |-> axes]
    /\ tmp' = t
    /\ out' = value
    /\ raised' = exc

\* arrPrecip = ncPrecip[:]
ReadArray ==
    /\ pc = "numpy"
    /\ arrPrecip = NoValue
    /\ arrPrecip' = GetItem(ncPrecip, <<All>>).value
    /\ Result("read", <<All>>, {}, NoValue, arrPrecip', "none")
    /\ UNCHANGED <<pc, file, ncPrecip, ncTime, tables>>

\* arrPrecip[0,250,300]
SelectPoint ==
    /\ pc = "numpy"
    /\ arrPrecip # NoValue
    /\ op.name = "read"
    /\ \E i \in IndexArgs(Length(arrPrecip, 1)), j \in IndexArgs(Length(arrPrecip, 2)),
             k \in IndexArgs(Length(arrPrecip, 3)) :
          LET key == <<Int_(i), Int_(j), Int_(k)>>
              r == GetItem(arrPrecip, key)
          IN  Result("point", key, {}, NoValue, r.value, r.raised)
    /\ UNCHANGED <<pc, file, ncPrecip, arrPrecip, ncTime, tables>>

\* arrPrecipLocX = arrPrecip[:,250,300]
SelectSeries ==
    /\ pc = "numpy"
    /\ arrPrecip # NoValue
    /\ op.name = "read"
    /\ \E j \in IndexArgs(Length(arrPrecip, 2)), k \in IndexArgs(Length(arrPrecip, 3)) :
          LET key == <<All, Int_(j), Int_(k)>>
              r == GetItem(arrPrecip, key)
          IN  Result("series", key, {}, NoValue, r.value, r.raised)
    /\ UNCHANGED <<pc, file, ncPrecip, arrPrecip, ncTime, tables>>

\* arrPrecipRecent = arrPrecip[-1,:,:]
SelectRecent ==
    /\ pc = "numpy"
    /\ arrPrecip # NoValue
    /\ op.name = "read"
    /\ \E i \in IndexArgs(Length(arrPrecip, 1)) :
          LET key == <<Int_(i), All, All>>
              r == GetItem(arrPrecip, key)
          IN  Result("recent", key, {}, NoValue, r.value, r.raised)
    /\ UNCHANGED <<pc, file, ncPrecip, arrPrecip, ncTime, tables>>

\* arrPrecipMean = arrPrecip.mean(axis=0), for any set of axes
MeanAxes ==
    /\ pc = "numpy"
    /\ arrPrecip # NoValue
    /\ op.name = "read"
    /\ \E axes \in SUBSET (1..3) :
          Result("mean", <<>>, axes, arrPrecip, Mean(arrPrecip, axes), "none")
    /\ UNCHANGED <<pc, file, ncPrecip, arrPrecip, ncTime, tables>>

\* arrPrecipMeanSubset = arrPrecip[:,250:300,300:400].mean(axis=0)
MeanSubset ==
    /\ pc = "numpy"
    /\ arrPrecip # NoValue
    /\ op.name = "read"
    /\ \E a \in SliceArgs(Length(arrPrecip, 2)), b \in SliceArgs(Length(arrPrecip, 2)),
             c \in SliceArgs(Length(arrPrecip, 3)), d \in SliceArgs(Length(arrPrecip, 3)) :
          LET key == <<All, Slice(a, b), Slice(c, d)>>
              r == GetItem(arrPrecip, key)
          IN  Result("subset", key, {1}, r.value, Mean(r.value, {1}), "none")
    /\ UNCHANGED <<pc, file, ncPrecip, arrPrecip, ncTime, tables>>

NoTime == [data |-> NoValue, units |-> <<>>]
NoFile == [dimensions |-> <<>>, variables |-> <<>>]
NoFrame == [values |-> <<>>, index |-> <<>>, columns |-> <<>>]

InitArray ==
    /\ pc = "numpy"
    /\ dataset = NoFile
    /\ isopen = TRUE /\ opens = 1 /\ closes = 0
    /\ ncPrecip \in Arrays
    /\ arrPrecip = NoValue
    /\ ncTime = NoTime
    /\ tmp = NoValue
    /\ op = NoOp
    /\ out = NoValue
    /\ raised = "none"
    /\ arrTimeSeries = NoValue /\ arrMeanPrecip = NoValue
    /\ dfTimeSeries = NoFrame /\ dfMeanPrecip = NoFrame

NextArray ==
    \/ ReadArray
    \/ SelectPoint
    \/ SelectSeries
    \/ SelectRecent
    \/ MeanAxes
    \/ MeanSubset

SpecArray == InitArray /\ [][NextArray]_vars

(***************************************************************************)
(* The same cells with a key of any number of selectors (arrPrecip[0],     *)
(* arrPrecip[:,250,300], ...) and with any axis number given to mean.      *)
(***************************************************************************)
\* a.mean(axis=k): k names an axis when -rank <= k < rank, a negative k
\* counting from the last axis; any other k is an AxisError
MeanAxis(a, axis) ==
    IF axis < -Rank(a) \/ axis >= Rank(a) THEN [raised |-> "AxisError", value |-> NoValue]
    ELSE [raised |-> "none", value |-> Mean(a, {IntNorm(axis, Rank(a)) + 1})]

\* the selectors a key is made of, and the keys of up to one selector more
\* than the array has axes
SelectorArgs == {All, Int_(0), Int_(1), Int_(-1)}
SelectorKeys == UNION {[1..n -> SelectorArgs] : n \in 0..4}
AxisArgs == -4..4

\* arrPrecip[k1, ..., kn]
SelectWith ==
    /\ pc = "numpy"
    /\ arrPrecip # NoValue
    /\ op.name = "read"
    /\ \E key \in SelectorKeys :
          LET r == GetItem(arrPrecip, key)
          IN  Result("select", key, {}, NoValue, r.value, r.raised)
    /\ UNCHANGED <<pc, file, ncPrecip, arrPrecip, ncTime, tables>>

\* arrPrecip.mean(axis=k)
MeanOver ==
    /\ pc = "numpy"
    /\ arrPrecip # NoValue
    /\ op.name = "read"
    /\ \E axis \in AxisArgs :
          LET r == MeanAxis(arrPrecip, axis)
          IN  Result("meanaxis", <<axis>>, {}, arrPrecip, r.value, r.raised)
    /\ UNCHANGED <<pc, file, ncPrecip, arrPrecip, ncTime, tables>>

NextSelector ==
    \/ ReadArray
    \/ SelectWith
    \/ MeanOver

SpecSelector == InitArray /\ [][NextSelector]_vars

(***************************************************************************)
(* Dates.  A datetime is the record of its calendar fields, as the         *)
(* datetime objects num2date returns; the day count of a date is taken     *)
(* over the proleptic Gregorian calendar, relative to 1970-01-01.          *)
(***************************************************************************)
Dt(y, m, d, h) == [year |-> y, month |-> m, day |-> d, hour |-> h]

DaysFromCivil(y, m, d) ==
    LET yy == IF m <= 2 THEN y - 1 ELSE y
        era == yy \div 400
        yoe == yy - era * 400
        mp == IF m > 2 THEN m - 3 ELSE m + 9
        doy == (153 * mp + 2) \div 5 + d - 1
        doe == yoe * 365 + yoe \div 4 - yoe \div 100 + doy
    IN  era * 146097 + doe - 719468

CivilFromDays(z0) ==
    LET z == z0 + 719468
        era == z \div 146097
        doe == z - era * 146097
        yoe == (doe - doe \div 1460 + doe \div 36524 - doe \div 146096) \div 365
        doy == doe - (365 * yoe + yoe \div 4 - yoe \div 100)
        mp == (5 * doy + 2) \div 153
        d == doy - (153 * mp + 2) \div 5 + 1
        m == IF mp < 10 THEN mp + 3 ELSE mp - 9
        y == yoe + era * 400 + (IF m <= 2 THEN 1 ELSE 0)
    IN  <<y, m, d>>

HoursOf(t) == DaysFromCivil(t.year, t.month, t.day) * 24 + t.hour

DateOfHours(h) ==
    LET c == CivilFromDays(h \div 24)
    IN  Dt(c[1], c[2], c[3], h % 24)

\* the order of datetime objects
DtLess(a, b) ==
    \/ a.year < b.year
    \/ a.year = b.year /\ a.month < b.month
    \/ a.year = b.year /\ a.month = b.month /\ a.day < b.day
    \/ a.year = b.year /\ a.month = b.month /\ a.day = b.day /\ a.hour < b.hour

DtLeq(a, b) == a = b \/ DtLess(a, b)

(***************************************************************************)
(* netCDF4.num2date(values, units).  The units attribute reads             *)
(* "<scale> since <epoch-date>"; it is modelled as its three words, the    *)
(* date being its <<year, month, day>>.  Anything else is rejected         *)
(* (ValueError).                                                           *)
(***************************************************************************)
UnitsOk(units) ==
    /\ Len(units) = 3
    /\ units[1] \in {"days", "hours"}
    /\ units[2] = "since"

ScaleHours(units) == IF units[1] = "days" THEN 24 ELSE 1

EpochOf(units) == Dt(units[3][1], units[3][2], units[3][3], 0)

\* mutant: the offset is subtracted from the epoch
Num2Date_Backwards(a, units) ==
    IF ~UnitsOk(units) THEN [raised |-> "ValueError", value |-> NoValue]
    ELSE [raised |-> "none",
          value |-> [shape |-> a.shape,
                     cells |-> [t \in DOMAIN a.cells |->
                                  [mask |-> a.cells[t].mask,
                                   data |-> DateOfHours(HoursOf(EpochOf(units))
                                              - a.cells[t].data * ScaleHours(units))]]]]

Num2Date(a, units) ==
    IF ~UnitsOk(units) THEN [raised |-> "ValueError", value |-> NoValue]
    ELSE [raised |-> "none",
          value |-> [shape |-> a.shape,
                     cells |-> [t \in DOMAIN a.cells |->
                                  [mask |-> a.cells[t].mask,
                                   data |-> DateOfHours(HoursOf(EpochOf(units))
                                              + a.cells[t].data * ScaleHours(units))]]]]

(***************************************************************************)
(* The time cells of section 3.2.  The time variable of the file holds     *)
(* the offsets of a time series in chronological order ("spanning the      *)
(* years 1990 to 2005"); ncTime[0] is 32864 in the notebook.               *)
(***************************************************************************)
TimeOffsets == {-1, 0, 1, 31, 32864, 36524}

UnitStrings == {<<"days", "since", <<1900, 1, 1>>>>,
                <<"hours", "since", <<1900, 1, 1>>>>,
                <<"days", "since", <<1990, 1, 1>>>>,
                <<"days", "after", <<1900, 1, 1>>>>}

Vector(seq) == [shape |-> <<Len(seq)>>,
                cells |-> [t \in IndexSet(<<Len(seq)>>) |-> Present(seq[t[1] + 1])]]

TimeAxes ==
    {Vector(seq) : seq \in {q \in UNION {[1..n -> TimeOffsets] : n \in 1..MaxLen} :
                              \A i \in DOMAIN q, j \in DOMAIN q : i <= j => q[i] <= q[j]}}

\* print(ncTime[0])
ShowRawTime ==
    /\ pc = "time"
    /\ op.name = "none"
    /\ \E i \in IndexArgs(Length(ncTime.data, 1)) :
          LET r == GetItem(ncTime.data, <<Int_(i)>>)
          IN  Result("rawtime", <<Int_(i)>>, {}, NoValue, r.value, r.raised)
    /\ UNCHANGED <<pc, file, ncPrecip, arrPrecip, ncTime, tables>>

\* ncTime2 = netCDF4.num2date(ncTime[:],ncTime.units); ncTime2[0]
ConvertTime ==
    /\ pc = "time"
    /\ op.name = "none"
    /\ \E i \in IndexArgs(Length(ncTime.data, 1)) :
          LET raw == GetItem(ncTime.data, <<All>>).value
              ncTime2 == Num2Date(raw, ncTime.units)
              r == IF ncTime2.raised = "none" THEN GetItem(ncTime2.value, <<Int_(i)>>)
                   ELSE ncTime2
          IN  Result("num2date", <<Int_(i)>>, {}, ncTime2.value, r.value, r.raised)
    /\ UNCHANGED <<pc, file, ncPrecip, arrPrecip, ncTime, tables>>

InitTime ==
    /\ pc = "time"
    /\ dataset = NoFile
    /\ isopen = TRUE /\ opens = 1 /\ closes = 0
    /\ ncPrecip = NoValue
    /\ arrPrecip = NoValue
    /\ ncTime \in [data : TimeAxes, units : UnitStrings]
    /\ arrTimeSeries = NoValue /\ arrMeanPrecip = NoValue
    /\ dfTimeSeries = NoFrame /\ dfMeanPrecip = NoFrame
    /\ tmp = NoValue
    /\ op = NoOp
    /\ out = NoValue
    /\ raised = "none"

NextTime ==
    \/ ShowRawTime
    \/ ConvertTime

SpecTime == InitTime /\ [][NextTime]_vars

(***************************************************************************)
(* pandas.  A data frame is its rows of cells, its row labels (index) and  *)
(* its column labels.  A masked cell becomes NaN, which holds no value.    *)
(***************************************************************************)
FrameCell(c) == IF c.mask THEN [na |-> TRUE, v |-> <<>>] ELSE [na |-> FALSE, v |-> <<c.data>>]

\* pd.DataFrame(array) of a 1-d or 2-d array: one column for a 1-d array,
\* rows and columns labelled 0, 1, ... (RangeIndex)
DataFrame(a) ==
    LET n == a.shape[1]
        m == IF Rank(a) = 1 THEN 1 ELSE a.shape[2]
    IN  [values |-> [r \in 1..n |-> [c \in 1..m |->
                       FrameCell(a.cells[IF Rank(a) = 1 THEN <<r - 1>> ELSE <<r - 1, c - 1>>])]],
         index |-> [r \in 1..n |-> r - 1],
         columns |-> [c \in 1..m |-> c - 1]]

\* mutant: labels of any length are accepted
SetIndex_Unchecked(frame, labels) ==
    [raised |-> "none", value |-> [frame EXCEPT !.index = labels]]

\* frame.index = labels
SetIndex(frame, labels) ==
    IF Len(labels) # Len(frame.values) THEN [raised |-> "ValueError", value |-> frame]
    ELSE [raised |-> "none", value |-> [frame EXCEPT !.index = labels]]

\* frame.columns = labels
SetColumns(frame, labels) ==
    IF Len(labels) # Len(frame.columns) THEN [raised |-> "ValueError", value |-> frame]
    ELSE [raised |-> "none", value |-> [frame EXCEPT !.columns = labels]]

RECURSIVE Pick(_, _, _)
Pick(seq, mask, r) ==
    IF r > Len(seq) THEN <<>>
    ELSE IF mask[r] THEN <<seq[r]>> \o Pick(seq, mask, r + 1)
    ELSE Pick(seq, mask, r + 1)

\* mutant: the last row is never selected
BoolSelect_SkipsLast(frame, mask) ==
    [values |-> Pick(SubSeq(frame.values, 1, Len(frame.values) - 1), mask, 1),
     index |-> Pick(SubSeq(frame.index, 1, Len(frame.index) - 1), mask, 1),
     columns |-> frame.columns]

\* frame[mask]: the rows whose mask entry is true, in their order
BoolSelect(frame, mask) ==
    [values |-> Pick(frame.values, mask, 1),
     index |-> Pick(frame.index, mask, 1),
     columns |-> frame.columns]

\* a date string gives its leading fields; the missing ones are the first
\* month, the first day, midnight ('2000' is 2000-01-01 00:00)
ParseDate(str) ==
    Dt(str[1], IF Len(str) >= 2 THEN str[2] ELSE 1, IF Len(str) >= 3 THEN str[3] ELSE 1, 0)

\* mutant: the start of the range is excluded
IndexGe_Exclusive(frame, str) ==
    [r \in 1..Len(frame.index) |-> DtLess(ParseDate(str), frame.index[r])]

\* frame.index >= str
IndexGe(frame, str) == [r \in 1..Len(frame.index) |-> DtLeq(ParseDate(str), frame.index[r])]

\* mutant: the end of the range is included
IndexLt_Inclusive(frame, str) ==
    [r \in 1..Len(frame.index) |-> DtLeq(frame.index[r], ParseDate(str))]

\* frame.index < str
IndexLt(frame, str) == [r \in 1..Len(frame.index) |-> DtLess(frame.index[r], ParseDate(str))]

\* frame.index == label
IndexEq(frame, label) == [r \in 1..Len(frame.index) |-> frame.index[r] = label]

MaskAnd(m1, m2) == [r \in DOMAIN m1 |-> m1[r] /\ m2[r]]

\* the rows read back label by label, in label order
RECURSIVE ReadRows(_, _)
ReadRows(frame, r) ==
    IF r > Len(frame.index) THEN <<>>
    ELSE BoolSelect(frame, IndexEq(frame, frame.index[r])).values \o ReadRows(frame, r + 1)

(***************************************************************************)
(* The pandas cells of section 5.  The label series (seriesTime,           *)
(* seriesLat, seriesLon) are inputs of the model: sequences of any length  *)
(* up to one more than the longest axis.  Each run builds one frame,       *)
(* labels it, and reads from it.                                           *)
(***************************************************************************)
TimeLabels == {Dt(1999, 12, 31, 0), Dt(2000, 1, 1, 0), Dt(2003, 12, 31, 0), Dt(2004, 1, 1, 0)}
DegreeLabels == {40, 41}
DateStrings == {<<2000>>, <<2004>>, <<2003, 12, 31>>}

SeqsUpTo(S, n) == UNION {[1..k -> S] : k \in 0..n}

\* dfTimeSeries=pd.DataFrame(arrTimeSeries)
MakeTimeSeriesFrame ==
    /\ pc = "pandas"
    /\ arrTimeSeries # NoValue
    /\ op.name = "none"
    /\ dfTimeSeries' = DataFrame(arrTimeSeries)
    /\ Result("frame", <<>>, {}, NoValue, dfTimeSeries', "none")
    /\ UNCHANGED <<pc, file, ncPrecip, arrPrecip, ncTime, arrTimeSeries, arrMeanPrecip,
                   dfMeanPrecip>>

\* dfMeanPrecip=pd.DataFrame(arrMeanPrecip)
MakeMeanPrecipFrame ==
    /\ pc = "pandas"
    /\ arrMeanPrecip # NoValue
    /\ op.name = "none"
    /\ dfMeanPrecip' = DataFrame(arrMeanPrecip)
    /\ Result("frame", <<>>, {}, NoValue, dfMeanPrecip', "none")
    /\ UNCHANGED <<pc, file, ncPrecip, arrPrecip, ncTime, arrTimeSeries, arrMeanPrecip,
                   dfTimeSeries>>

\* dfTimeSeries.index = seriesTime
SetTimeIndex ==
    /\ pc = "pandas"
    /\ dfTimeSeries # NoFrame
    /\ op.name = "frame"
    /\ \E seriesTime \in SeqsUpTo(TimeLabels, MaxLen + 1) :
          LET r == SetIndex(dfTimeSeries, seriesTime)
          IN  /\ dfTimeSeries' = r.value
              /\ Result("setindex", seriesTime, {}, NoValue, r.value, r.raised)
    /\ UNCHANGED <<pc, file, ncPrecip, arrPrecip, ncTime, arrTimeSeries, arrMeanPrecip,
                   dfMeanPrecip>>

\* dfMeanPrecip.columns = seriesLon; dfMeanPrecip.index = seriesLat
\* (the cell stops at the first assignment that raises)
LabelMeanPrecip ==
    /\ pc = "pandas"
    /\ dfMeanPrecip # NoFrame
    /\ op.name = "frame"
    /\ \E seriesLon \in SeqsUpTo(DegreeLabels, MaxLen + 1),
          seriesLat \in SeqsUpTo(DegreeLabels, MaxLen + 1) :
          LET c == SetColumns(dfMeanPrecip, seriesLon)
              r == IF c.raised = "none" THEN SetIndex(c.value, seriesLat) ELSE c
          IN  /\ dfMeanPrecip' = r.value
              /\ Result("label", <<seriesLat, seriesLon>>, {}, NoValue, r.value, r.raised)
    /\ UNCHANGED <<pc, file, ncPrecip, arrPrecip, ncTime, arrTimeSeries, arrMeanPrecip,
                   dfTimeSeries>>

\* df_subset = dfTimeSeries[(dfTimeSeries.index >= '2000') & (dfTimeSeries.index < '2004')]
SelectRows ==
    /\ pc = "pandas"
    /\ op.name = "setindex"
    /\ raised = "none"
    /\ \E start \in DateStrings, end \in DateStrings :
          Result("select", <<start, end>>, {}, NoValue,
                 BoolSelect(dfTimeSeries,
                            MaskAnd(IndexGe(dfTimeSeries, start), IndexLt(dfTimeSeries, end))),
                 "none")
    /\ UNCHANGED <<pc, file, ncPrecip, arrPrecip, ncTime, tables>>

\* every row looked up by its label, dfTimeSeries[dfTimeSeries.index == label],
\* label after label
ReadBack ==
    /\ pc = "pandas"
    /\ op.name = "setindex"
    /\ raised = "none"
    /\ Result("readback", <<>>, {}, NoValue, ReadRows(dfTimeSeries, 1), "none")
    /\ UNCHANGED <<pc, file, ncPrecip, arrPrecip, ncTime, tables>>

InitTable ==
    /\ pc = "pandas"
    /\ dataset = NoFile
    /\ isopen = TRUE /\ opens = 1 /\ closes = 0
    /\ ncPrecip = NoValue
    /\ arrPrecip = NoValue
    /\ ncTime = NoTime
    /\ \/ /\ arrTimeSeries \in {GetItem(a, <<All, Int_(0), Int_(0)>>).value : a \in Arrays}
          /\ arrMeanPrecip = NoValue
       \/ /\ arrTimeSeries = NoValue
          /\ arrMeanPrecip \in {Mean(a, {1}) : a \in Arrays}
    /\ dfTimeSeries = NoFrame /\ dfMeanPrecip = NoFrame
    /\ tmp = NoValue
    /\ op = NoOp
    /\ out = NoValue
    /\ raised = "none"

NextTable ==
    \/ MakeTimeSeriesFrame
    \/ MakeMeanPrecipFrame
    \/ SetTimeIndex
    \/ LabelMeanPrecip
    \/ SelectRows
    \/ ReadBack

SpecTable == InitTable /\ [][NextTable]_vars

(***************************************************************************)
(* The notebook run: the cells in their order.  A cell that raises leaves  *)
(* the names it assigns as they were; the run then goes on with the next   *)
(* cell, or stops there (Run All).  A cell that reads a name no cell has   *)
(* assigned raises NameError.                                              *)
(***************************************************************************)
\* the time, lat and lon coordinates of a file with n entries on the axis
FileTimes(n) == [i \in 1..n |-> 32864 + 3660 * (i - 1)]
FileDegrees(n) == [i \in 1..n |-> 40 + i]

\* mutant: the lat coordinate variable of the file has lost its last entry
FileOf_ShortLat(a) ==
    [dimensions |-> [time |-> a.shape[1], lat |-> a.shape[2], lon |-> a.shape[3], crs |-> 1],
     varnames |-> <<"lat", "lon", "time", "precipitation", "crs">>,
     variables |->
        [lat |-> [dimensions |-> <<"lat">>, units |-> <<"degrees_north">>,
                  data |-> Vector(FileDegrees(a.shape[2] - 1))],
         lon |-> [dimensions |-> <<"lon">>, units |-> <<"degrees_east">>,
                  data |-> Vector(FileDegrees(a.shape[3]))],
         time |-> [dimensions |-> <<"time">>, units |-> <<"days", "since", <<1900, 1, 1>>>>,
                   data |-> Vector(FileTimes(a.shape[1]))],
         precipitation |-> [dimensions |-> DimNames, units |-> <<"mm">>, data |-> a],
         crs |-> [dimensions |-> <<"crs">>, units |-> <<>>, data |-> Vector(<<1>>)]]]

\* the dataset of a file whose precipitation variable is a: four dimensions,
\* five variables in their order of declaration (section 2.2), one
\* coordinate variable per dimension
FileOf(a) ==
    [dimensions |-> [time |-> a.shape[1], lat |-> a.shape[2], lon |-> a.shape[3], crs |-> 1],
     varnames |-> <<"lat", "lon", "time", "precipitation", "crs">>,
     variables |->
        [lat |-> [dimensions |-> <<"lat">>, units |-> <<"degrees_north">>,
                  data |-> Vector(FileDegrees(a.shape[2]))],
         lon |-> [dimensions |-> <<"lon">>, units |-> <<"degrees_east">>,
                  data |-> Vector(FileDegrees(a.shape[3]))],
         time |-> [dimensions |-> <<"time">>, units |-> <<"days", "since", <<1900, 1, 1>>>>,
                   data |-> Vector(FileTimes(a.shape[1]))],
         precipitation |-> [dimensions |-> DimNames, units |-> <<"mm">>, data |-> a],
         crs |-> [dimensions |-> <<"crs">>, units |-> <<>>, data |-> Vector(<<1>>)]]]

Files == {FileOf(a) : a \in Arrays}

\* the values of a 1-d array without masked cells, as a sequence
Series(a) == [r \in 1..a.shape[1] |-> a.cells[<<r - 1>>].data]

Step(next, name, key, t, value, exc) ==
    /\ pc' = next
    /\ Result(name, key, {}, t, value, exc)

\* the names the lookups are tried with: the keys of the file and two names
\* it does not have
LookupNames == {"time", "lat", "lon", "crs", "precipitation", "precip", "latitude"}

\* mutant: an absent key yields no entry, and no error
Lookup_Default(mapping, name) ==
    IF name \in DOMAIN mapping THEN [raised |-> "none", value |-> mapping[name]]
    ELSE [raised |-> "none", value |-> NoValue]

\* mapping[name] of a Python dictionary
Lookup(mapping, name) ==
    IF name \in DOMAIN mapping THEN [raised |-> "none", value |-> mapping[name]]
    ELSE [raised |-> "KeyError", value |-> NoValue]

\* dataset.variables.keys(): the names in their order of declaration
Keys(ds) == ds.varnames

\* the attributes of a variable, by name
Attributes(v) == [units |-> v.units]

\* dataset = netCDF4.Dataset(fileName)
OpenDataset ==
    /\ pc = "open"
    /\ isopen' = TRUE
    /\ opens' = opens + 1
    /\ Step("dims", "open", <<>>, NoValue, NoValue, "none")
    /\ UNCHANGED <<dataset, closes, ncPrecip, arrPrecip, ncTime, tables>>

\* dataset.dimensions, dataset.dimensions.keys(), dataset.dimensions['time']
ShowDimensions ==
    /\ pc = "dims"
    /\ \E name \in LookupNames :
          LET r == Lookup(dataset.dimensions, name)
          IN  Step("blank", "dims", <<name>>, NoValue, r.value, r.raised)
    /\ UNCHANGED <<file, ncPrecip, arrPrecip, ncTime, tables>>

\* dataset.dimensions[]   (the cell left for the reader to complete)
BlankLookup ==
    /\ pc = "blank"
    /\ Step("vars", "blank", <<>>, NoValue, NoValue, "SyntaxError")
    /\ UNCHANGED <<file, ncPrecip, arrPrecip, ncTime, tables>>

\* dataset.variables.keys()
ShowVariables ==
    /\ pc = "vars"
    /\ Step("var", "vars", <<>>, NoValue, Keys(dataset), "none")
    /\ UNCHANGED <<file, ncPrecip, arrPrecip, ncTime, tables>>

\* dataset.variables['precipitation']
ShowVariable ==
    /\ pc = "var"
    /\ \E name \in LookupNames :
          LET r == Lookup(dataset.variables, name)
          IN  Step("attrs", "var", <<name>>, NoValue, r.value, r.raised)
    /\ UNCHANGED <<file, ncPrecip, arrPrecip, ncTime, tables>>

\* dataset.variables['precipitation'].ncattrs(), .cell_methods; precip._FillValue
ShowAttributes ==
    /\ pc = "attrs"
    /\ \E name \in LookupNames :
          LET r == Lookup(dataset.variables, name)
          IN  Step("ncvars", "attrs", <<name>>, NoValue,
                   IF r.raised = "none" THEN Attributes(r.value) ELSE NoValue, r.raised)
    /\ UNCHANGED <<file, ncPrecip, arrPrecip, ncTime, tables>>

\* ncTime = dataset.variables['time']; ...; ncPrecip = dataset.variables['precipitation']
ReadVariables ==
    /\ pc = "ncvars"
    /\ ncTime' = [data |-> dataset.variables.time.data, units |-> dataset.variables.time.units]
    /\ ncPrecip' = dataset.variables.precipitation.data
    /\ Step("ncpoint", "ncvars", <<>>, NoValue, NoValue, "none")
    /\ UNCHANGED <<file, arrPrecip, tables>>

\* print(ncPrecip[0,250,300])
PrintPoint ==
    /\ pc = "ncpoint"
    /\ \E i \in IndexArgs(Length(ncPrecip, 1)), j \in IndexArgs(Length(ncPrecip, 2)),
          k \in IndexArgs(Length(ncPrecip, 3)) :
          LET key == <<Int_(i), Int_(j), Int_(k)>>
              r == GetItem(ncPrecip, key)
          IN  Step("num2date", "ncpoint", key, NoValue, r.value, r.raised)
    /\ UNCHANGED <<file, ncPrecip, arrPrecip, ncTime, tables>>

\* ncTime2 = netCDF4.num2date(ncTime[:],ncTime.units); ncTime2[0]
DecodeTime ==
    /\ pc = "num2date"
    /\ LET ncTime2 == Num2Date(GetItem(ncTime.data, <<All>>).value, ncTime.units)
           r == GetItem(ncTime2.value, <<Int_(0)>>)
       IN  Step("toarrays", "num2date", <<Int_(0)>>, ncTime2.value, r.value, r.raised)
    /\ UNCHANGED <<file, ncPrecip, arrPrecip, ncTime, tables>>

\* arrPrecip = ncPrecip[:]   (again in section 5.1.1: arrPrecip = precip[:])
ToArrays ==
    /\ pc = "toarrays"
    /\ arrPrecip' = GetItem(ncPrecip, <<All>>).value
    /\ Step("point", "toarrays", <<All>>, NoValue, arrPrecip', "none")
    /\ UNCHANGED <<file, ncPrecip, ncTime, tables>>

\* arrPrecip[0,250,300]
ShowPoint ==
    /\ pc = "point"
    /\ \E i \in IndexArgs(Length(arrPrecip, 1)), j \in IndexArgs(Length(arrPrecip, 2)),
          k \in IndexArgs(Length(arrPrecip, 3)) :
          LET key == <<Int_(i), Int_(j), Int_(k)>>
              r == GetItem(arrPrecip, key)
          IN  Step("recent", "point", key, NoValue, r.value, r.raised)
    /\ UNCHANGED <<file, ncPrecip, arrPrecip, ncTime, tables>>

\* arrPrecipRecent = arrPrecip[-1,:,:]
TakeRecent ==
    /\ pc = "recent"
    /\ LET key == <<Int_(-1), All, All>>
           r == GetItem(arrPrecip, key)
       IN  Step("meansubset", "recent", key, NoValue, r.value, r.raised)
    /\ UNCHANGED <<file, ncPrecip, arrPrecip, ncTime, tables>>

\* arrPrecipMeanSubset = arrPrecip[:,250:300,300:400].mean(axis=0)
TakeMeanSubset ==
    /\ pc = "meansubset"
    /\ \E a \in SliceArgs(Length(arrPrecip, 2)), c \in SliceArgs(Length(arrPrecip, 3)) :
          LET key == <<All, Slice(a, a + 1), Slice(c, c + 2)>>
              r == GetItem(arrPrecip, key)
          IN  Step("reread", "meansubset", key, r.value, Mean(r.value, {1}), "none")
    /\ UNCHANGED <<file, ncPrecip, arrPrecip, ncTime, tables>>

\* mutant: the second read gives the raw data, the fill value where a cell
\* is missing, without the mask
RereadPrecip_Unmasked ==
    /\ pc = "reread"
    /\ LET precip == Lookup(dataset.variables, "precipitation").value
       IN  arrPrecip' = [shape |-> precip.data.shape,
                         cells |-> [t \in DOMAIN precip.data.cells |->
                                      Present(precip.data.cells[t].data)]]
    /\ Step("series", "reread", <<All>>, arrPrecip, arrPrecip', "none")
    /\ UNCHANGED <<file, ncPrecip, ncTime, tables>>

\* precip = dataset.variables['precipitation']; arrPrecip = precip[:]
\* (section 5.1.1 reads the variable a second time)
RereadPrecip ==
    /\ pc = "reread"
    /\ LET precip == Lookup(dataset.variables, "precipitation").value
       IN  arrPrecip' = GetItem(precip.data, <<All>>).value
    /\ Step("series", "reread", <<All>>, arrPrecip, arrPrecip', "none")
    /\ UNCHANGED <<file, ncPrecip, ncTime, tables>>

\* arrTimeSeries = arrPrecip[:,250,300]   (and arrPrecipLocX before it)
TakeTimeSeries ==
    /\ pc = "series"
    /\ \E j \in IndexArgs(Length(arrPrecip, 2)), k \in IndexArgs(Length(arrPrecip, 3)) :
          LET key == <<All, Int_(j), Int_(k)>>
              r == GetItem(arrPrecip, key)
          IN  /\ arrTimeSeries' = r.value
              /\ Step("mean", "series", key, NoValue, r.value, r.raised)
    /\ UNCHANGED <<file, ncPrecip, arrPrecip, ncTime, arrMeanPrecip, dfTimeSeries, dfMeanPrecip>>

\* arrMeanPrecip = arrPrecip.mean(axis=0)   (and arrPrecipMean before it)
TakeMean ==
    /\ pc = "mean"
    /\ arrMeanPrecip' = Mean(arrPrecip, {1})
    /\ Step("frame1", "mean", <<>>, arrPrecip, arrMeanPrecip', "none")
    /\ UNCHANGED <<file, ncPrecip, arrPrecip, ncTime, arrTimeSeries, dfTimeSeries, dfMeanPrecip>>

\* dfTimeSeries=pd.DataFrame(arrTimeSeries)
FrameTimeSeries ==
    /\ pc = "frame1"
    /\ IF arrTimeSeries = NoValue
       THEN /\ Step("frame2", "frame1", <<>>, NoValue, NoValue, "NameError")
            /\ UNCHANGED dfTimeSeries
       ELSE /\ dfTimeSeries' = DataFrame(arrTimeSeries)
            /\ Step("frame2", "frame1", <<>>, NoValue, dfTimeSeries', "none")
    /\ UNCHANGED <<file, ncPrecip, arrPrecip, ncTime, arrTimeSeries, arrMeanPrecip, dfMeanPrecip>>

\* dfMeanPrecip=pd.DataFrame(arrMeanPrecip)
FrameMeanPrecip ==
    /\ pc = "frame2"
    /\ dfMeanPrecip' = DataFrame(arrMeanPrecip)
    /\ Step("label1", "frame2", <<>>, NoValue, dfMeanPrecip', "none")
    /\ UNCHANGED <<file, ncPrecip, arrPrecip, ncTime, arrTimeSeries, arrMeanPrecip, dfTimeSeries>>

\* seriesTime = pd.Series(netCDF4.num2date(ncTime[:],ncTime.units))
\* dfTimeSeries.index = seriesTime
LabelTimeSeries ==
    /\ pc = "label1"
    /\ LET seriesTime == Series(Num2Date(GetItem(ncTime.data, <<All>>).value, ncTime.units).value)
       IN  IF dfTimeSeries = NoFrame
           THEN /\ Step("label2", "label1", seriesTime, NoValue, NoValue, "NameError")
                /\ UNCHANGED dfTimeSeries
           ELSE LET r == SetIndex(dfTimeSeries, seriesTime)
                IN  /\ dfTimeSeries' = r.value
                    /\ Step("label2", "label1", seriesTime, NoValue, r.value, r.raised)
    /\ UNCHANGED <<file, ncPrecip, arrPrecip, ncTime, arrTimeSeries, arrMeanPrecip, dfMeanPrecip>>

\* seriesLat = pd.Series(dataset.variables['lat'][:]); seriesLon likewise
\* dfMeanPrecip.columns = seriesLon; dfMeanPrecip.index = seriesLat
LabelGrid ==
    /\ pc = "label2"
    /\ LET seriesLat == Series(GetItem(dataset.variables.lat.data, <<All>>).value)
           seriesLon == Series(GetItem(dataset.variables.lon.data, <<All>>).value)
           c == SetColumns(dfMeanPrecip, seriesLon)
           r == IF c.raised = "none" THEN SetIndex(c.value, seriesLat) ELSE c
       IN  /\ dfMeanPrecip' = r.value
           /\ Step("select", "label2", <<seriesLat, seriesLon>>, NoValue, r.value, r.raised)
    /\ UNCHANGED <<file, ncPrecip, arrPrecip, ncTime, arrTimeSeries, arrMeanPrecip, dfTimeSeries>>

\* df_subset = dfTimeSeries[(dfTimeSeries.index >= '2000') & (dfTimeSeries.index < '2004')]
\* plt.plot(df_subset): the last code cell
SubsetYears ==
    /\ pc = "select"
    /\ IF dfTimeSeries = NoFrame
       THEN Step("done", "select", <<<<2000>>, <<2004>>>>, NoValue, NoValue, "NameError")
       ELSE Step("done", "select", <<<<2000>>, <<2004>>>>, NoValue,
                 BoolSelect(dfTimeSeries, MaskAnd(IndexGe(dfTimeSeries, <<2000>>),
                                                  IndexLt(dfTimeSeries, <<2004>>))),
                 "none")
    /\ UNCHANGED <<file, ncPrecip, arrPrecip, ncTime, tables>>

\* Run All stops at the cell that raised
StopRun ==
    /\ pc \notin {"open", "done"}
    /\ raised # "none"
    /\ pc' = "done"
    /\ UNCHANGED <<file, ncPrecip, arrPrecip, ncTime, tables, tmp, op, out, raised>>

Init ==
    /\ pc = "open"
    /\ dataset \in Files
    /\ isopen = FALSE /\ opens = 0 /\ closes = 0
    /\ ncPrecip = NoValue
    /\ arrPrecip = NoValue
    /\ ncTime = NoTime
    /\ arrTimeSeries = NoValue /\ arrMeanPrecip = NoValue
    /\ dfTimeSeries = NoFrame /\ dfMeanPrecip = NoFrame
    /\ tmp = NoValue
    /\ op = NoOp
    /\ out = NoValue
    /\ raised = "none"

Next ==
    \/ OpenDataset
    \/ ShowDimensions
    \/ BlankLookup
    \/ ShowVariables
    \/ ShowVariable
    \/ ShowAttributes
    \/ ReadVariables
    \/ PrintPoint
    \/ DecodeTime
    \/ ToArrays
    \/ ShowPoint
    \/ TakeRecent
    \/ TakeMeanSubset
    \/ RereadPrecip
    \/ TakeTimeSeries
    \/ TakeMean
    \/ FrameTimeSeries
    \/ FrameMeanPrecip
    \/ LabelTimeSeries
    \/ LabelGrid
    \/ SubsetYears
    \/ StopRun

Spec == Init /\ [][Next]_vars

(***************************************************************************)
(* Properties of the array operations (SpecArray).                         *)
(***************************************************************************)
PointIndex == [d \in 1..3 |-> op.key[d].start]

\* C1: select_point with one index per dimension returns a single scalar
\* cell when every index i_d satisfies 0 <= i_d < length(d), and fails with
\* the index error, returning no value, when some index is equal to or
\* greater than the length of its dimension.
C1_SelectPoint ==
    op.name = "point" =>
        /\ (\A d \in 1..3 : 0 <= PointIndex[d] /\ PointIndex[d] < arrPrecip.shape[d])
              => /\ raised = "none"
                 /\ out.shape = <<>>
                 /\ out.cells = [t \in {<<>>} |-> arrPrecip.cells[PointIndex]]
        /\ (\E d \in 1..3 : PointIndex[d] >= arrPrecip.shape[d])
              => /\ raised = "IndexError"
                 /\ out = NoValue

\* an index equal to the length of its axis, the others valid, was rejected
C1_Witness ==
    /\ op.name = "point"
    /\ \E d \in 1..3 :
          /\ PointIndex[d] = arrPrecip.shape[d]
          /\ \A e \in (1..3) \ {d} : 0 <= PointIndex[e] /\ PointIndex[e] < arrPrecip.shape[e]
    /\ raised = "IndexError"

\* the axes of 1..rank outside `axes`, in increasing order
PreservedAxes(axes, rank) ==
    CHOOSE s \in UNION {[1..n -> 1..rank] : n \in 0..rank} :
        /\ {s[p] : p \in DOMAIN s} = (1..rank) \ axes
        /\ \A p \in DOMAIN s, q \in DOMAIN s : p < q => s[p] < s[q]

\* the input cells that contribute to output position t
Contributing(a, axes, t) ==
    LET ks == PreservedAxes(axes, Rank(a))
    IN  {i \in IndexSet(a.shape) : \A p \in DOMAIN ks : i[ks[p]] = t[p]}

RECURSIVE SumOfData(_, _)
SumOfData(a, S) ==
    IF S = {} THEN 0
    ELSE LET i == CHOOSE i \in S : TRUE
         IN  a.cells[i].data + SumOfData(a, S \ {i})

NonMissing(a, S) == {i \in S : ~a.cells[i].mask}

\* C2: each output cell of reduce_mean equals the sum of the non-missing
\* contributing cells divided by their number; it is missing when all of
\* them are missing, and equals the single value when exactly one is
\* non-missing.
C2_MeanExcludesMissing ==
    op.name \in {"mean", "subset"} =>
        \A t \in DOMAIN out.cells :
            LET nm == NonMissing(tmp, Contributing(tmp, op.axes, t))
                c == out.cells[t]
            IN  /\ c.mask <=> nm = {}
                /\ nm # {} => c.data[1] * Cardinality(nm) = SumOfData(tmp, nm) * c.data[2]
                /\ c.data[2] > 0
                /\ \A i \in nm : nm = {i} => c.data = <<tmp.cells[i].data, 1>>

\* one output cell has only missing contributions, another exactly one
\* non-missing among several
C2_Witness ==
    /\ op.name = "mean"
    /\ op.axes # {}
    /\ \E t \in DOMAIN out.cells :
          /\ Cardinality(Contributing(tmp, op.axes, t)) >= 2
          /\ NonMissing(tmp, Contributing(tmp, op.axes, t)) = {}
          /\ out.cells[t].mask
    /\ \E t \in DOMAIN out.cells :
          /\ Cardinality(Contributing(tmp, op.axes, t)) >= 2
          /\ Cardinality(NonMissing(tmp, Contributing(tmp, op.axes, t))) = 1
          /\ ~out.cells[t].mask

\* C3: the result of reduce_mean has as its axes the dimensions that were
\* not reduced, in their original relative order, and its shape is the tuple
\* of their lengths.
C3_MeanShape ==
    op.name \in {"mean", "subset"} =>
        LET ks == PreservedAxes(op.axes, Rank(tmp))
        IN  /\ out.shape = [p \in DOMAIN ks |-> tmp.shape[ks[p]]]
            /\ DOMAIN out.cells = IndexSet(out.shape)

\* time was reduced from an array whose lat and lon lengths differ
C3_Witness ==
    /\ op.name = "mean"
    /\ op.axes = {1}
    /\ tmp.shape[1] > 1
    /\ tmp.shape[2] # tmp.shape[3]
    /\ out.shape = <<tmp.shape[2], tmp.shape[3]>>

FullRange(k, n) ==
    \/ ~k.hasStart /\ ~k.hasStop
    \/ k.hasStart /\ k.start = 0 /\ k.hasStop /\ k.stop = n

\* C4: select_slice with the full range requested on every dimension (":"
\* or 0:length) returns an array equal to the original cell for cell,
\* masks included, with the same shape and dimension order.
C4_FullSliceIsIdentity ==
    /\ arrPrecip # NoValue => arrPrecip = ncPrecip
    /\ (/\ op.name = "subset"
        /\ \A d \in 1..3 : FullRange(op.key[d], arrPrecip.shape[d]))
          => tmp = arrPrecip

\* lat and lon were sliced 0:length on an array with several cells, one of
\* them masked
C4_Witness ==
    /\ op.name = "subset"
    /\ \A d \in 2..3 : op.key[d].hasStart /\ FullRange(op.key[d], arrPrecip.shape[d])
    /\ Cardinality(DOMAIN arrPrecip.cells) > 2
    /\ \E i \in DOMAIN arrPrecip.cells : arrPrecip.cells[i].mask
    /\ \E i \in DOMAIN arrPrecip.cells : ~arrPrecip.cells[i].mask
    /\ tmp = arrPrecip

\* the sub-array of a whose axis d runs over lo[d] <= i < hi[d]
Window(a, lo, hi) ==
    LET shape == [d \in 1..Rank(a) |-> Max(hi[d] - lo[d], 0)]
    IN  [shape |-> shape,
         cells |-> [t \in IndexSet(shape) |-> a.cells[[d \in 1..Rank(a) |-> lo[d] + t[d]]]]]

LowOf(k) == IF k.hasStart THEN k.start ELSE 0
HighOf(k, n) == IF k.hasStop THEN k.stop ELSE n

\* C5 as stated: bounds outside [0, length] are clamped and never wrap, so
\* the cells returned are those at max(0, start) <= i < min(length, end).
C5_ClampedNeverWraps ==
    op.name = "subset" =>
        tmp = Window(arrPrecip,
                     [d \in 1..3 |-> Max(0, Min(LowOf(op.key[d]), arrPrecip.shape[d]))],
                     [d \in 1..3 |-> Min(arrPrecip.shape[d],
                                         Max(0, HighOf(op.key[d], arrPrecip.shape[d])))])

\* a bound b < 0 stands for b + length
FromEnd(b, n) == IF b < 0 THEN b + n ELSE b

\* C5 amended: a negative bound counts from the end of the axis (b stands
\* for b + length); after that, bounds outside [0, length] are clamped, and
\* the cells returned are those at lo <= i < hi for the resulting bounds.
C5_SliceCountsFromEndThenClamps ==
    op.name = "subset" =>
        /\ raised = "none"
        /\ tmp = Window(arrPrecip,
                        [d \in 1..3 |-> Max(0, Min(FromEnd(LowOf(op.key[d]), arrPrecip.shape[d]),
                                                   arrPrecip.shape[d]))],
                        [d \in 1..3 |-> Max(0, Min(FromEnd(HighOf(op.key[d], arrPrecip.shape[d]),
                                                           arrPrecip.shape[d]),
                                                   arrPrecip.shape[d]))])

\* lat was sliced from -1 to beyond the end of an axis of two: the last row
\* alone came back
C5_Witness ==
    /\ op.name = "subset"
    /\ arrPrecip.shape[2] = 2
    /\ op.key[2].start = -1
    /\ op.key[2].stop > 2
    /\ op.key[3].start < -arrPrecip.shape[3]
    /\ op.key[3].stop > arrPrecip.shape[3]
    /\ tmp.shape = <<arrPrecip.shape[1], 1, arrPrecip.shape[3]>>
    /\ \A t \in DOMAIN tmp.cells : tmp.cells[t] = arrPrecip.cells[<<t[1], 1, t[3]>>]

\* C16: the mean over time of the slice (all, R1, R2) of the array is the
\* slice (R1, R2) of the mean over time of the whole array, cell for cell,
\* the missing cells included.
C16_SliceCommutesWithMean ==
    op.name = "subset" =>
        /\ raised = "none"
        /\ out = GetItem(Mean(arrPrecip, {1}), <<op.key[2], op.key[3]>>).value

\* of an array of two times and two places, one place was sliced out; its
\* mean is over one missing and one present value, and the other place has
\* a present value too
C16_Witness ==
    /\ op.name = "subset"
    /\ arrPrecip.shape[1] = 2
    /\ arrPrecip.shape[2] * arrPrecip.shape[3] = 2
    /\ tmp.shape = <<2, 1, 1>>
    /\ \E t \in DOMAIN tmp.cells : tmp.cells[t].mask
    /\ \E t \in DOMAIN tmp.cells : ~tmp.cells[t].mask
    /\ Cardinality({i \in DOMAIN arrPrecip.cells : ~arrPrecip.cells[i].mask}) >= 2
    /\ out.shape = <<1, 1>>
    /\ ~out.cells[<<0, 0>>].mask
    /\ out = GetItem(Mean(arrPrecip, {1}), <<op.key[2], op.key[3]>>).value

(***************************************************************************)
(* Properties of keys and axis numbers that do not fit the array           *)
(* (SpecSelector).                                                         *)
(***************************************************************************)
\* the selectors of the key that fix an axis: the integers
FixedAxes(key) == {d \in 1..Len(key) : key[d].kind = "int"}

\* the cells of a the key selects when its d-th selector is applied to the
\* d-th axis and the axes beyond the key are taken whole
Chosen(a, key) ==
    LET kept == PreservedAxes(FixedAxes(key), Rank(a))
        shape == [p \in 1..Len(kept) |-> a.shape[kept[p]]]
    IN  [shape |-> shape,
         cells |-> [t \in IndexSet(shape) |->
                      a.cells[[d \in 1..Rank(a) |->
                                 IF d \in FixedAxes(key) THEN FromEnd(key[d].start, a.shape[d])
                                 ELSE t[CHOOSE p \in 1..Len(kept) : kept[p] = d]]]]]

RawAt(i) == ncTime.data.cells[<<i>>].data
DecodedAt(i) == tmp.cells[<<i>>].data

OriginalRows(a) ==
    [r \in 1..a.shape[1] |->
        <<IF a.cells[<<r - 1>>].mask THEN [na |-> TRUE, v |-> <<>>]
          ELSE [na |-> FALSE, v |-> <<a.cells[<<r - 1>>].data>>]>>]

Distinct(seq) == \A i \in DOMAIN seq, j \in DOMAIN seq : i # j => seq[i] # seq[j]

RangeLabels(n) == [r \in 1..n |-> r - 1]

RowLabels == op.key[1]
ColumnLabels == op.key[2]

\* C8 as stated: to_table on a 2-d array fails with the length error
\* whenever a coordinate sequence does not match its dimension and then
\* produces no table (the frame is left as it was, labelled 0, 1, ...); when
\* both match, the rows are labelled by row_coordinates and the columns by
\* column_coordinates.
C8_MismatchProducesNoTable ==
    op.name = "label" =>
        LET n == arrMeanPrecip.shape[1]
            m == arrMeanPrecip.shape[2]
        IN  IF Len(RowLabels) # n \/ Len(ColumnLabels) # m
            THEN /\ raised = "ValueError"
                 /\ dfMeanPrecip.index = RangeLabels(n)
                 /\ dfMeanPrecip.columns = RangeLabels(m)
            ELSE /\ raised = "none"
                 /\ dfMeanPrecip.index = RowLabels
                 /\ dfMeanPrecip.columns = ColumnLabels

\* C8 amended: the call fails with the length error whenever a coordinate
\* sequence does not match its dimension; the frame built from the array
\* then keeps its values, and keeps the labels 0, 1, ... on both axes when
\* the column sequence is the wrong one, but on the rows only when the
\* column sequence matches and the row sequence does not: the columns are
\* then already labelled by column_coordinates.  When both match, the rows
\* are labelled by row_coordinates and the columns by column_coordinates.
C8_MismatchRaises ==
    op.name = "label" =>
        LET n == arrMeanPrecip.shape[1]
            m == arrMeanPrecip.shape[2]
        IN  /\ Len(dfMeanPrecip.values) = n
            /\ \A r \in 1..n : \A c \in 1..m :
                  LET cell == arrMeanPrecip.cells[<<r - 1, c - 1>>]
                  IN  /\ dfMeanPrecip.values[r][c].na = cell.mask
                      /\ ~cell.mask => dfMeanPrecip.values[r][c].v = <<cell.data>>
            /\ IF Len(ColumnLabels) # m
               THEN /\ raised = "ValueError"
                    /\ dfMeanPrecip.index = RangeLabels(n)
                    /\ dfMeanPrecip.columns = RangeLabels(m)
               ELSE IF Len(RowLabels) # n
               THEN /\ raised = "ValueError"
                    /\ dfMeanPrecip.index = RangeLabels(n)
                    /\ dfMeanPrecip.columns = ColumnLabels
               ELSE /\ raised = "none"
                    /\ dfMeanPrecip.index = RowLabels
                    /\ dfMeanPrecip.columns = ColumnLabels

\* the column labels fit a table of two columns, the row labels were one too
\* many: the call failed, the columns are labelled
C8_Witness ==
    /\ op.name = "label"
    /\ arrMeanPrecip.shape[2] = 2
    /\ Len(ColumnLabels) = 2
    /\ Len(RowLabels) = arrMeanPrecip.shape[1] + 1
    /\ raised = "ValueError"
    /\ dfMeanPrecip.columns = ColumnLabels
    /\ dfMeanPrecip.index = RangeLabels(arrMeanPrecip.shape[1])

\* the positions of the rows whose label lies in [start, end)
InRange(frame, start, end) ==
    {r \in 1..Len(frame.index) :
        /\ HoursOf(ParseDate(start)) <= HoursOf(frame.index[r])
        /\ HoursOf(frame.index[r]) < HoursOf(ParseDate(end))}

\* C9: select_by_row_range(start, end) returns exactly the rows whose label L
\* satisfies start <= L < end, in their original order: none added, none
\* dropped, none reordered.
C9_RowRange ==
    op.name = "select" =>
        LET keep == InRange(dfTimeSeries, op.key[1], op.key[2])
        IN  /\ Len(out.values) = Cardinality(keep)
            /\ Len(out.index) = Cardinality(keep)
            /\ out.columns = dfTimeSeries.columns
            /\ \E f \in [1..Cardinality(keep) -> keep] :
                  /\ \A a \in DOMAIN f, b \in DOMAIN f : a < b => f[a] < f[b]
                  /\ \A a \in DOMAIN f :
                        /\ out.index[a] = dfTimeSeries.index[f[a]]
                        /\ out.values[a] = dfTimeSeries.values[f[a]]

\* of two rows, the one labelled with the end date itself was left out and
\* the one labelled with the start date itself was kept
C9_Witness ==
    /\ op.name = "select"
    /\ Len(dfTimeSeries.index) = 2
    /\ dfTimeSeries.index[1] = ParseDate(op.key[2])
    /\ dfTimeSeries.index[2] = ParseDate(op.key[1])
    /\ Len(out.index) = 1
    /\ out.index[1] = dfTimeSeries.index[2]
    /\ out.values[1] = dfTimeSeries.values[2]

\* the rows of the frame made of the positional slice a[lo:hi] of a 1-d array
SliceRows(a, lo, hi) == DataFrame(GetItem(a, <<Slice(lo, hi)>>).value).values

\* the rows at the positions of S, taken position by position in increasing
\* order
RECURSIVE RowsAt(_, _, _)
RowsAt(a, S, r) ==
    IF r > a.shape[1] THEN <<>>
    ELSE (IF r \in S THEN SliceRows(a, r - 1, r) ELSE <<>>) \o RowsAt(a, S, r + 1)

\* C15: selecting the rows of the time-indexed table by the coordinate range
\* [start, end) gives the values that positional slicing of the underlying
\* array gives at the indices i whose coordinate c(i) satisfies
\* start <= c(i) < end: where those indices are the range lo..hi-1, the
\* slice lo:hi; a range that matches no coordinate gives an empty result
\* and no error.
C15_CoordinateSliceIsPositional ==
    op.name = "select" =>
        LET keep == InRange(dfTimeSeries, op.key[1], op.key[2])
        IN  /\ raised = "none"
            /\ out.values = RowsAt(arrTimeSeries, keep, 1)
            /\ keep = {} => (out.values = <<>> /\ out.index = <<>>)
            /\ \A lo \in 1..Len(dfTimeSeries.index), hi \in 1..Len(dfTimeSeries.index) :
                  keep = lo..hi =>
                      /\ out.values = SliceRows(arrTimeSeries, lo - 1, hi)
                      /\ out.index = SubSeq(dfTimeSeries.index, lo, hi)

\* of two rows in chronological order, the range held the second alone: the
\* result is the slice 1:2 of the array
C15_Witness ==
    /\ op.name = "select"
    /\ Len(dfTimeSeries.index) = 2
    /\ InRange(dfTimeSeries, op.key[1], op.key[2]) = {2}
    /\ DtLess(dfTimeSeries.index[1], dfTimeSeries.index[2])
    /\ Len(out.values) = 1
    /\ out.values[1] = DataFrame(arrTimeSeries).values[2]
    /\ out.index = <<dfTimeSeries.index[2]>>

(***************************************************************************)
(* Properties of the notebook run (Spec).                                  *)
(***************************************************************************)
\* C10: on every path that opens the dataset file, whether the run ends
\* after the last cell or at a cell that raised, the file handle has been
\* acquired exactly once and released exactly once: it is not left open at
\* the end and not closed twice.
C10_HandleReleasedOnce ==
    /\ closes <= 1
    /\ opens <= 1
    /\ (pc = "done" /\ opens > 0) => (opens = 1 /\ closes = 1 /\ ~isopen)

\* the lengths of the dimensions named by dims, in that order
Lengths(ds, dims) == [p \in 1..Len(dims) |-> ds.dimensions[dims[p]]]

C12_ReadOnly ==
    [][/\ dataset' = dataset
       /\ ncPrecip # NoValue => ncPrecip' = ncPrecip
       /\ ncTime # NoTime => ncTime' = ncTime
       /\ arrPrecip # NoValue => arrPrecip' = arrPrecip]_vars

\* the variable was read a second time, after the point look-ups, one of
\* which had raised, the slices and the mean: the array, with a masked cell,
\* is the one of the first read
C12_Witness ==
    /\ op.name = "reread"
    /\ out = tmp
    /\ out = dataset.variables["precipitation"].data
    /\ Cardinality(DOMAIN out.cells) > 2
    /\ \E t \in DOMAIN out.cells : out.cells[t].mask
    /\ \E t \in DOMAIN out.cells : ~out.cells[t].mask

\* C13: looking up a dimension, a variable or a variable's attributes by
\* name fails with the key error exactly when the name is not a key of the
\* mapping, and returns the stored entry when it is; the variable names are
\* listed in their order of declaration.
C13_Lookups ==
    /\ op.name = "dims" =>
          IF op.key[1] \in DOMAIN dataset.dimensions
          THEN raised = "none" /\ out = dataset.dimensions[op.key[1]]
          ELSE raised = "KeyError" /\ out = NoValue
    /\ op.name = "var" =>
          IF op.key[1] \in DOMAIN dataset.variables
          THEN raised = "none" /\ out = dataset.variables[op.key[1]]
          ELSE raised = "KeyError" /\ out = NoValue
    /\ op.name = "attrs" =>
          IF op.key[1] \in DOMAIN dataset.variables
          THEN raised = "none" /\ out = [units |-> dataset.variables[op.key[1]].units]
          ELSE raised = "KeyError" /\ out = NoValue
    /\ op.name = "vars" =>
          /\ raised = "none"
          /\ out = <<"lat", "lon", "time", "precipitation", "crs">>
          /\ {out[p] : p \in DOMAIN out} = DOMAIN dataset.variables

\* a variable was looked up by a name the dataset does not have
C13_Witness ==
    /\ op.name = "var"
    /\ op.key[1] = "precip"
    /\ op.key[1] \notin DOMAIN dataset.variables
    /\ raised = "KeyError"

====
